---- MODULE Spec2Model ----
(***************************************************************************)
(* Window management store of MituOS (src/src/stores/window/windowStore.ts) *)
(* modelled as a state machine.  The store holds a Map of windows (kept    *)
(* here as the sequence of its values in Map insertion order), the id of   *)
(* the active window and the z-index counter.  Every store operation is a  *)
(* pure operator from the store state and the call's arguments to the      *)
(* store state that zustand's set() commits; one action per operation      *)
(* commits it and records the call in the history variable hist.           *)
(***************************************************************************)
EXTENDS Integers, Sequences, FiniteSets, TLC

VARIABLES windows, activeWindowId, nextZIndex, hist, calls

vars == <<windows, activeWindowId, nextZIndex, hist, calls>>

----------------------------------------------------------------------------
(* Bounds of the model *)

\* number of store calls in a run
MaxCalls == 5

----------------------------------------------------------------------------
(* Program constants *)

InitialZIndex == 1000
screenWidth == 1920
screenHeight == 1080
TaskbarHeight == 48
minVisibleArea == 50
MinWidth == 300
MinHeight == 200
SetSizeMin == 200
DefaultX == 100
DefaultY == 100
DefaultWidth == 800
DefaultHeight == 600

\* activeWindowId: string | null
Null == "null"

\* an optional number (number | undefined): <<>> is undefined, <<n>> is n
Undefined == <<>>
Some(n) == <<n>>

\* JavaScript  v || d  on an optional number: undefined and 0 are falsy
OrDefault(v, d) == IF v = Undefined \/ v[1] = 0 THEN d ELSE v[1]

Max(a, b) == IF a >= b THEN a ELSE b
Min(a, b) == IF a <= b THEN a ELSE b

----------------------------------------------------------------------------
(* JavaScript Map<string, WindowState>, as the sequence of its values in   *)
(* insertion order                                                         *)

MapHas(m, id) == \E i \in 1..Len(m) : m[i].id = id

MapGet(m, id) == m[CHOOSE i \in 1..Len(m) : m[i].id = id]

\* Map.set: an existing key keeps its place, a new key goes last
MapSet(m, id, w) ==
  IF MapHas(m, id)
    THEN [i \in 1..Len(m) |-> IF m[i].id = id THEN w ELSE m[i]]
    ELSE Append(m, w)

MapDeleteTest(w, id) == w.id # id

MapDelete(m, id) == SelectSeq(m, LAMBDA w : MapDeleteTest(w, id))

MapKeys(m) == {m[i].id : i \in 1..Len(m)}

MapValues(m) == {m[i] : i \in 1..Len(m)}

----------------------------------------------------------------------------
(* The store state *)

State == [windows |-> windows, activeWindowId |-> activeWindowId,
          nextZIndex |-> nextZIndex]

InitState == [windows |-> <<>>, activeWindowId |-> Null,
              nextZIndex |-> InitialZIndex]

----------------------------------------------------------------------------
(* Inputs of the calls *)

\* ids callers pass to createWindow.  With the one generated id they bound
\* the registry to three windows
CallerIds == {"a", "b"}

\* ids openWindow generates (`window-${Date.now()}-${random}`)
GeneratedIds == {"w1"}

Ids == CallerIds \cup GeneratedIds

\* the window descriptions passed to createWindow (without the id)
CreateArgs ==
  { [title |-> "Test Window", component |-> "notepad",
     x |-> 100, y |-> 100, width |-> 800, height |-> 600],
    [title |-> "Window 2", component |-> "calculator",
     x |-> 0, y |-> 200, width |-> 250, height |-> 150] }

\* the window data launchApp passes to openWindow (Calculator, Notepad)
OpenArgs ==
  { [title |-> "Calculator", component |-> "Calculator",
     isMinimized |-> FALSE, isMaximized |-> FALSE,
     position |-> [x |-> 100, y |-> 100],
     size |-> [width |-> 300, height |-> 400],
     isResizable |-> FALSE, isClosable |-> TRUE] }

\* positions requested of updateWindowPosition: x beyond the screen, y on it
PositionArgs == { [x |-> 2000, y |-> 300] }

\* sizes requested of updateWindowSize: width above the minimum, height below
SizeArgs == { [width |-> 1000, height |-> 50] }

\* sizes requested of setWindowSize
SetSizeArgs == { [width |-> 250, height |-> 50] }

\* positions requested of setWindowPosition
SetPositionArgs == { [x |-> -2000, y |-> 2000] }

\* updates passed to updateWindow: each field is optional.  Notepad passes
\* a title, the drag and resize handlers pass x, y, width and height
UpdateArgs ==
  { [x |-> Undefined, y |-> Undefined, width |-> Undefined, height |-> Undefined,
     title |-> <<"Untitled *">>],
    [x |-> Some(-30), y |-> Some(40), width |-> Some(100), height |-> Some(900),
     title |-> Undefined] }

----------------------------------------------------------------------------
(* The operations of the store: state before the call, arguments |-> state  *)
(* after the call                                                           *)

\* the WindowState createWindow builds
NewWindow(state, id, window) ==
  [id |-> id, title |-> window.title, component |-> window.component,
   zIndex |-> state.nextZIndex,
   isMinimized |-> FALSE, isMaximized |-> FALSE,
   position |-> [x |-> window.x, y |-> window.y],
   size |-> [width |-> window.width, height |-> window.height],
   originalX |-> Undefined, originalY |-> Undefined,
   originalWidth |-> Undefined, originalHeight |-> Undefined,
   isResizable |-> Undefined, isClosable |-> Undefined]

\* createWindow that leaves the active reference alone
createWindow_NoActivate(state, id, window) ==
  [windows |-> MapSet(state.windows, id, NewWindow(state, id, window)),
   activeWindowId |-> state.activeWindowId,
   nextZIndex |-> state.nextZIndex + 1]

createWindow(state, id, window) ==
  [windows |-> MapSet(state.windows, id, NewWindow(state, id, window)),
   activeWindowId |-> id,
   nextZIndex |-> state.nextZIndex + 1]

\* the WindowState openWindow builds
OpenedWindow(state, id, windowData) ==
  [id |-> id, title |-> windowData.title, component |-> windowData.component,
   zIndex |-> state.nextZIndex,
   isMinimized |-> windowData.isMinimized, isMaximized |-> windowData.isMaximized,
   position |-> windowData.position,
   size |-> windowData.size,
   originalX |-> Undefined, originalY |-> Undefined,
   originalWidth |-> Undefined, originalHeight |-> Undefined,
   isResizable |-> Some(windowData.isResizable),
   isClosable |-> Some(windowData.isClosable)]

openWindow(state, id, windowData) ==
  [windows |-> MapSet(state.windows, id, OpenedWindow(state, id, windowData)),
   activeWindowId |-> id,
   nextZIndex |-> state.nextZIndex + 1]

\* remainingWindows[remainingWindows.length - 1].id, or null
LastRemainingId(remainingWindows) ==
  IF Len(remainingWindows) > 0
    THEN remainingWindows[Len(remainingWindows)].id
    ELSE Null

\* closeWindow that always activates the last remaining window
closeWindow_Reactivate(state, id) ==
  LET newWindows == MapDelete(state.windows, id)
  IN [windows |-> newWindows,
      activeWindowId |-> LastRemainingId(newWindows),
      nextZIndex |-> state.nextZIndex]

\* closeWindow that hands the zIndex of the closed window back when it was
\* the last one handed out
closeWindow_ReleaseZIndex(state, id) ==
  LET newWindows == MapDelete(state.windows, id)
  IN [windows |-> newWindows,
      activeWindowId |-> IF state.activeWindowId = id
                           THEN LastRemainingId(newWindows)
                           ELSE state.activeWindowId,
      nextZIndex |-> IF /\ MapHas(state.windows, id)
                        /\ MapGet(state.windows, id).zIndex = state.nextZIndex - 1
                       THEN state.nextZIndex - 1
                       ELSE state.nextZIndex]

\* closeWindow that picks the new active window before the removal
closeWindow_StaleLast(state, id) ==
  LET newWindows == MapDelete(state.windows, id)
  IN [windows |-> newWindows,
      activeWindowId |-> IF state.activeWindowId = id
                           THEN LastRemainingId(state.windows)
                           ELSE state.activeWindowId,
      nextZIndex |-> state.nextZIndex]

closeWindow(state, id) ==
  LET newWindows == MapDelete(state.windows, id)
  IN [windows |-> newWindows,
      activeWindowId |-> IF state.activeWindowId = id
                           THEN LastRemainingId(newWindows)
                           ELSE state.activeWindowId,
      nextZIndex |-> state.nextZIndex]

\* minimizeWindow that also takes the window out of the maximized state
minimizeWindow_Unmaximize(state, id) ==
  [windows |-> IF MapHas(state.windows, id)
                 THEN MapSet(state.windows, id,
                        [MapGet(state.windows, id) EXCEPT
                           !.isMinimized = TRUE, !.isMaximized = FALSE])
                 ELSE state.windows,
   activeWindowId |-> IF state.activeWindowId = id THEN Null
                      ELSE state.activeWindowId,
   nextZIndex |-> state.nextZIndex]

\* minimizeWindow that promotes the last remaining window when the active
\* window is minimized
minimizeWindow_Promote(state, id) ==
  [windows |-> IF MapHas(state.windows, id)
                 THEN MapSet(state.windows, id,
                        [MapGet(state.windows, id) EXCEPT !.isMinimized = TRUE])
                 ELSE state.windows,
   activeWindowId |-> IF state.activeWindowId = id
                        THEN LastRemainingId(MapDelete(state.windows, id))
                        ELSE state.activeWindowId,
   nextZIndex |-> state.nextZIndex]

minimizeWindow(state, id) ==
  [windows |-> IF MapHas(state.windows, id)
                 THEN MapSet(state.windows, id,
                        [MapGet(state.windows, id) EXCEPT !.isMinimized = TRUE])
                 ELSE state.windows,
   activeWindowId |-> IF state.activeWindowId = id THEN Null
                      ELSE state.activeWindowId,
   nextZIndex |-> state.nextZIndex]

\* the un-maximize branch of maximizeWindow
Unmaximized(window) ==
  [window EXCEPT
     !.isMaximized = FALSE,
     !.position = [x |-> OrDefault(window.originalX, DefaultX),
                   y |-> OrDefault(window.originalY, DefaultY)],
     !.size = [width |-> OrDefault(window.originalWidth, DefaultWidth),
               height |-> OrDefault(window.originalHeight, DefaultHeight)]]

\* the maximize branch without the room left for the taskbar
Maximized_FullHeight(window) ==
  [window EXCEPT
     !.isMaximized = TRUE,
     !.originalWidth = Some(window.size.width),
     !.originalHeight = Some(window.size.height),
     !.originalX = Some(window.position.x),
     !.originalY = Some(window.position.y),
     !.position = [x |-> 0, y |-> 0],
     !.size = [width |-> screenWidth, height |-> screenHeight]]

\* the maximize branch of maximizeWindow
Maximized(window) ==
  [window EXCEPT
     !.isMaximized = TRUE,
     !.originalWidth = Some(window.size.width),
     !.originalHeight = Some(window.size.height),
     !.originalX = Some(window.position.x),
     !.originalY = Some(window.position.y),
     !.position = [x |-> 0, y |-> 0],
     !.size = [width |-> screenWidth, height |-> screenHeight - TaskbarHeight]]

\* maximizeWindow that also makes the window active
maximizeWindow_Activate(state, id) ==
  [windows |-> IF MapHas(state.windows, id)
                 THEN LET window == MapGet(state.windows, id)
                      IN MapSet(state.windows, id,
                           IF window.isMaximized THEN Unmaximized(window)
                                                 ELSE Maximized(window))
                 ELSE state.windows,
   activeWindowId |-> id,
   nextZIndex |-> state.nextZIndex]

maximizeWindow(state, id) ==
  [windows |-> IF MapHas(state.windows, id)
                 THEN LET window == MapGet(state.windows, id)
                      IN MapSet(state.windows, id,
                           IF window.isMaximized THEN Unmaximized(window)
                                                 ELSE Maximized(window))
                 ELSE state.windows,
   activeWindowId |-> state.activeWindowId,
   nextZIndex |-> state.nextZIndex]

\* restoreWindow that only un-minimizes
restoreWindow_KeepMaximized(state, id) ==
  [windows |-> IF MapHas(state.windows, id)
                 THEN MapSet(state.windows, id,
                        [MapGet(state.windows, id) EXCEPT !.isMinimized = FALSE])
                 ELSE state.windows,
   activeWindowId |-> id,
   nextZIndex |-> state.nextZIndex]

restoreWindow(state, id) ==
  [windows |-> IF MapHas(state.windows, id)
                 THEN MapSet(state.windows, id,
                        [MapGet(state.windows, id) EXCEPT
                           !.isMinimized = FALSE, !.isMaximized = FALSE])
                 ELSE state.windows,
   activeWindowId |-> id,
   nextZIndex |-> state.nextZIndex]

\* focusWindow that does not advance the counter
focusWindow_NoIncrement(state, id) ==
  [windows |-> IF MapHas(state.windows, id)
                 THEN MapSet(state.windows, id,
                        [MapGet(state.windows, id) EXCEPT
                           !.zIndex = state.nextZIndex])
                 ELSE state.windows,
   activeWindowId |-> id,
   nextZIndex |-> state.nextZIndex]

\* focusWindow that marks the window active without restacking it
focusWindow_KeepZIndex(state, id) ==
  [windows |-> state.windows,
   activeWindowId |-> id,
   nextZIndex |-> state.nextZIndex + 1]

focusWindow(state, id) ==
  [windows |-> IF MapHas(state.windows, id)
                 THEN MapSet(state.windows, id,
                        [MapGet(state.windows, id) EXCEPT
                           !.zIndex = state.nextZIndex])
                 ELSE state.windows,
   activeWindowId |-> id,
   nextZIndex |-> state.nextZIndex + 1]

\* the boundary constraint as full containment on the left edge
constrainedPosition_Contained(window, position) ==
  [x |-> Max(0, Min(position.x, screenWidth - minVisibleArea)),
   y |-> Max(0, Min(position.y, screenHeight - minVisibleArea))]

\* the screen boundary constraint of updateWindowPosition
constrainedPosition(window, position) ==
  [x |-> Max(minVisibleArea - window.size.width,
             Min(position.x, screenWidth - minVisibleArea)),
   y |-> Max(0, Min(position.y, screenHeight - minVisibleArea))]

updateWindowPosition(state, id, position) ==
  [windows |-> IF MapHas(state.windows, id)
                 THEN LET window == MapGet(state.windows, id)
                      IN MapSet(state.windows, id,
                           [window EXCEPT
                              !.position = constrainedPosition(window, position)])
                 ELSE state.windows,
   activeWindowId |-> state.activeWindowId,
   nextZIndex |-> state.nextZIndex]

\* the minimum size constraint with the looser minimum of setWindowSize
constrainedSize_Loose(size) ==
  [width |-> Max(size.width, SetSizeMin), height |-> Max(size.height, SetSizeMin)]

\* the minimum size constraint of updateWindowSize
constrainedSize(size) ==
  [width |-> Max(size.width, MinWidth), height |-> Max(size.height, MinHeight)]

updateWindowSize(state, id, size) ==
  [windows |-> IF MapHas(state.windows, id)
                 THEN MapSet(state.windows, id,
                        [MapGet(state.windows, id) EXCEPT
                           !.size = constrainedSize(size)])
                 ELSE state.windows,
   activeWindowId |-> state.activeWindowId,
   nextZIndex |-> state.nextZIndex]

setWindowSize(state, id, width, height) ==
  IF MapHas(state.windows, id)
    THEN [state EXCEPT
            !.windows = MapSet(state.windows, id,
                          [MapGet(state.windows, id) EXCEPT
                             !.size = [width |-> Max(width, SetSizeMin),
                                       height |-> Max(height, SetSizeMin)]])]
    ELSE state

setWindowPosition(state, id, x, y) ==
  IF MapHas(state.windows, id)
    THEN [state EXCEPT
            !.windows = MapSet(state.windows, id,
                          [MapGet(state.windows, id) EXCEPT
                             !.position = [x |-> x, y |-> y]])]
    ELSE state

\* the window updateWindow stores: only x, y, width and height are read
UpdatedWindow(window, updates) ==
  LET moved ==
        IF updates.x # Undefined \/ updates.y # Undefined
          THEN [window EXCEPT
                  !.position =
                    [x |-> IF updates.x # Undefined THEN updates.x[1]
                           ELSE window.position.x,
                     y |-> IF updates.y # Undefined THEN updates.y[1]
                           ELSE window.position.y]]
          ELSE window
  IN IF updates.width # Undefined \/ updates.height # Undefined
       THEN [moved EXCEPT
               !.size =
                 [width |-> IF updates.width # Undefined
                              THEN Max(updates.width[1], MinWidth)
                              ELSE window.size.width,
                  height |-> IF updates.height # Undefined
                               THEN Max(updates.height[1], MinHeight)
                               ELSE window.size.height]]
       ELSE moved

updateWindow(state, id, updates) ==
  IF MapHas(state.windows, id)
    THEN [state EXCEPT
            !.windows = MapSet(state.windows, id,
                          UpdatedWindow(MapGet(state.windows, id), updates))]
    ELSE state

\* the queries
getWindow(state, id) ==
  IF MapHas(state.windows, id) THEN <<MapGet(state.windows, id)>> ELSE Undefined

\* activeWindowId ? ... : undefined (null and the empty string are falsy)
getActiveWindow(state) ==
  IF state.activeWindowId \notin {Null, ""}
    THEN getWindow(state, state.activeWindowId)
    ELSE Undefined

getAllWindows(state) == state.windows

IsVisible(w) == ~w.isMinimized

\* getVisibleWindows without the filter
getVisibleWindows_All(state) == state.windows

getVisibleWindows(state) == SelectSeq(state.windows, IsVisible)

----------------------------------------------------------------------------
(* The state machine *)

Init ==
  /\ windows = <<>>
  /\ activeWindowId = Null
  /\ nextZIndex = InitialZIndex
  /\ hist = [op |-> "init", id |-> Null, arg |-> <<>>, ret |-> Null]
  /\ calls = 0

\* the run may make another call
CanCall == calls < MaxCalls

\* set(): commit the state a call computed; hist records the call (its
\* operation, id, other arguments and returned value), calls counts the
\* calls made
Commit(op, id, arg, ret, new) ==
  /\ calls' = calls + 1
  /\ windows' = new.windows
  /\ activeWindowId' = new.activeWindowId
  /\ nextZIndex' = new.nextZIndex
  /\ hist' = [op |-> op, id |-> id, arg |-> arg, ret |-> ret]

CreateWindow ==
  \E id \in CallerIds, window \in CreateArgs :
    /\ CanCall
    /\ Commit("createWindow", id, <<window>>, id, createWindow(State, id, window))

\* the generated id carries the time and a random suffix: it is a key the
\* registry does not hold
OpenWindow ==
  \E id \in GeneratedIds \ MapKeys(windows), windowData \in OpenArgs :
    /\ CanCall
    /\ Commit("openWindow", id, <<windowData>>, id, openWindow(State, id, windowData))

CloseWindow ==
  \E id \in Ids :
    /\ CanCall
    /\ Commit("closeWindow", id, <<>>, Null, closeWindow(State, id))

MinimizeWindow ==
  \E id \in Ids :
    /\ CanCall
    /\ Commit("minimizeWindow", id, <<>>, Null, minimizeWindow(State, id))

MaximizeWindow ==
  \E id \in Ids :
    /\ CanCall
    /\ Commit("maximizeWindow", id, <<>>, Null, maximizeWindow(State, id))

RestoreWindow ==
  \E id \in Ids :
    /\ CanCall
    /\ Commit("restoreWindow", id, <<>>, Null, restoreWindow(State, id))

FocusWindow ==
  \E id \in Ids :
    /\ CanCall
    /\ Commit("focusWindow", id, <<>>, Null, focusWindow(State, id))

UpdateWindowPosition ==
  \E id \in Ids, position \in PositionArgs :
    /\ CanCall
    /\ Commit("updateWindowPosition", id, <<position>>, Null,
              updateWindowPosition(State, id, position))

UpdateWindowSize ==
  \E id \in Ids, size \in SizeArgs :
    /\ CanCall
    /\ Commit("updateWindowSize", id, <<size>>, Null, updateWindowSize(State, id, size))

SetWindowSize ==
  \E id \in Ids, size \in SetSizeArgs :
    /\ CanCall
    /\ Commit("setWindowSize", id, <<size>>, Null,
              setWindowSize(State, id, size.width, size.height))

SetWindowPosition ==
  \E id \in Ids, position \in SetPositionArgs :
    /\ CanCall
    /\ Commit("setWindowPosition", id, <<position>>, Null,
              setWindowPosition(State, id, position.x, position.y))

UpdateWindow ==
  \E id \in Ids, updates \in UpdateArgs :
    /\ CanCall
    /\ Commit("updateWindow", id, <<updates>>, Null, updateWindow(State, id, updates))

Next ==
  \/ CreateWindow
  \/ OpenWindow
  \/ CloseWindow
  \/ MinimizeWindow
  \/ MaximizeWindow
  \/ RestoreWindow
  \/ FocusWindow
  \/ UpdateWindowPosition
  \/ UpdateWindowSize
  \/ SetWindowSize
  \/ SetWindowPosition
  \/ UpdateWindow

Spec == Init /\ [][Next]_vars

\* callers that pass createWindow only ids the registry does not hold
CreateWindowNewId ==
  \E id \in CallerIds \ MapKeys(windows), window \in CreateArgs :
    /\ CanCall
    /\ Commit("createWindow", id, <<window>>, id, createWindow(State, id, window))

NextNewIds ==
  \/ CreateWindowNewId
  \/ OpenWindow
  \/ CloseWindow
  \/ MinimizeWindow
  \/ MaximizeWindow
  \/ RestoreWindow
  \/ FocusWindow
  \/ UpdateWindowPosition
  \/ UpdateWindowSize
  \/ SetWindowSize
  \/ SetWindowPosition
  \/ UpdateWindow

SpecNewIds == Init /\ [][NextNewIds]_vars

----------------------------------------------------------------------------
(* One window moved and resized: the same operations with more requests    *)

\* the window the geometry calls are made on
GeometryIds == {"a"}

\* positions requested: on the screen, beyond its right and top edges, beyond
\* its left and bottom edges, and on the upper limits
GeometryPositionArgs ==
  { [x |-> 200, y |-> 300], [x |-> 2000, y |-> -100],
    [x |-> -2000, y |-> 2000], [x |-> 1870, y |-> 1030] }

\* sizes requested: above the minimum, below it, zero and negative, and the
\* minimum itself
GeometrySizeArgs ==
  { [width |-> 1000, height |-> 700], [width |-> 50, height |-> 50],
    [width |-> 0, height |-> -10], [width |-> 300, height |-> 200] }

\* the position a drag or a resize from the left edge passes to updateWindow
GeometryUpdateArgs ==
  { [x |-> Some(-5000), y |-> Some(-100), width |-> Undefined,
     height |-> Undefined, title |-> Undefined] }

GeometryCreateWindow ==
  \E id \in GeometryIds, window \in CreateArgs :
    /\ CanCall
    /\ Commit("createWindow", id, <<window>>, id, createWindow(State, id, window))

GeometryUpdateWindowPosition ==
  \E id \in GeometryIds, position \in GeometryPositionArgs :
    /\ CanCall
    /\ Commit("updateWindowPosition", id, <<position>>, Null,
              updateWindowPosition(State, id, position))

GeometryUpdateWindowSize ==
  \E id \in GeometryIds, size \in GeometrySizeArgs :
    /\ CanCall
    /\ Commit("updateWindowSize", id, <<size>>, Null, updateWindowSize(State, id, size))

GeometrySetWindowPosition ==
  \E id \in GeometryIds, position \in SetPositionArgs :
    /\ CanCall
    /\ Commit("setWindowPosition", id, <<position>>, Null,
              setWindowPosition(State, id, position.x, position.y))

GeometryUpdateWindow ==
  \E id \in GeometryIds, updates \in GeometryUpdateArgs :
    /\ CanCall
    /\ Commit("updateWindow", id, <<updates>>, Null, updateWindow(State, id, updates))

GeometryMaximizeWindow ==
  \E id \in GeometryIds :
    /\ CanCall
    /\ Commit("maximizeWindow", id, <<>>, Null, maximizeWindow(State, id))

NextGeometry ==
  \/ GeometryCreateWindow
  \/ GeometryUpdateWindowPosition
  \/ GeometryUpdateWindowSize
  \/ GeometrySetWindowPosition
  \/ GeometryUpdateWindow
  \/ GeometryMaximizeWindow

SpecGeometry == Init /\ [][NextGeometry]_vars

\* a window that is only created, moved and resized
NextMoveResize ==
  \/ GeometryCreateWindow
  \/ GeometryUpdateWindowPosition
  \/ GeometryUpdateWindowSize

SpecMoveResize == Init /\ [][NextMoveResize]_vars

----------------------------------------------------------------------------
(* The desktop: windows opened by launchApp and driven by the controls of   *)
(* the Window component                                                     *)

\* b ?? d
NullishOr(b, d) == IF b = Undefined THEN d ELSE b[1]

\* the pre-installed applications launched here (apps of the app store)
Apps ==
  [calculator |-> [name |-> "Calculator", component |-> "Calculator",
                   defaultSize |-> [width |-> 300, height |-> 400],
                   isResizable |-> <<FALSE>>, isClosable |-> <<TRUE>>],
   notepad |-> [name |-> "Notepad", component |-> "Notepad",
                defaultSize |-> [width |-> 600, height |-> 500],
                isResizable |-> <<TRUE>>, isClosable |-> <<TRUE>>]]

\* the appIds passed to launchApp: two registered ones and one that is not
AppIds == DOMAIN Apps \cup {"paint"}

\* ids openWindow generates for the launched windows
LaunchedIds == {"w1", "w2"}

\* positions Math.random() yields for the launched window
LaunchPositions == { [x |-> 0, y |-> 0], [x |-> 700, y |-> 300] }

\* launchApp with the flags of a resizable, closable window
launchApp_DefaultFlags(state, id, appId, position) ==
  IF appId \in DOMAIN Apps
    THEN LET app == Apps[appId]
         IN openWindow(state, id,
              [title |-> app.name, component |-> app.component,
               isMinimized |-> FALSE, isMaximized |-> FALSE,
               position |-> position,
               size |-> app.defaultSize,
               isResizable |-> TRUE,
               isClosable |-> TRUE])
    ELSE state

\* launchApp of the app store; id is the id openWindow generates
launchApp(state, id, appId, position) ==
  IF appId \in DOMAIN Apps
    THEN LET app == Apps[appId]
         IN openWindow(state, id,
              [title |-> app.name, component |-> app.component,
               isMinimized |-> FALSE, isMaximized |-> FALSE,
               position |-> position,
               size |-> app.defaultSize,
               isResizable |-> NullishOr(app.isResizable, TRUE),
               isClosable |-> NullishOr(app.isClosable, TRUE)])
    ELSE state

\* Window.handleMaximize: the maximize control of a window
handleMaximize(state, id) ==
  IF MapGet(state.windows, id).isMaximized
    THEN restoreWindow(state, id)
    ELSE maximizeWindow(state, id)

\* the windows whose Window component is rendered (it renders nothing for a
\* minimized window)
RenderedIds == { w.id : w \in { v \in MapValues(windows) : ~v.isMinimized } }

LaunchApp ==
  \E appId \in AppIds, id \in LaunchedIds \ MapKeys(windows),
     position \in LaunchPositions :
    /\ CanCall
    /\ Commit("launchApp", id, <<appId, position>>, Null,
              launchApp(State, id, appId, position))

HandleMaximize ==
  \E id \in RenderedIds :
    /\ CanCall
    /\ Commit("handleMaximize", id, <<>>, Null, handleMaximize(State, id))

HandleMinimize ==
  \E id \in RenderedIds :
    /\ CanCall
    /\ Commit("handleMinimize", id, <<>>, Null, minimizeWindow(State, id))

HandleClose ==
  \E id \in RenderedIds :
    /\ CanCall
    /\ Commit("handleClose", id, <<>>, Null, closeWindow(State, id))

HandleFocus ==
  \E id \in RenderedIds :
    /\ CanCall
    /\ Commit("handleFocus", id, <<>>, Null, focusWindow(State, id))

NextDesktop ==
  \/ LaunchApp
  \/ HandleMaximize
  \/ HandleMinimize
  \/ HandleClose
  \/ HandleFocus

SpecDesktop == Init /\ [][NextDesktop]_vars

----------------------------------------------------------------------------
(* The queries called between the operations: they read the state with     *)
(* get() and return a value; hist.ret holds the value returned              *)

GetWindow ==
  \E id \in Ids :
    /\ CanCall
    /\ Commit("getWindow", id, <<>>, getWindow(State, id), State)

GetActiveWindow ==
  /\ CanCall
  /\ Commit("getActiveWindow", Null, <<>>, getActiveWindow(State), State)

GetAllWindows ==
  /\ CanCall
  /\ Commit("getAllWindows", Null, <<>>, getAllWindows(State), State)

GetVisibleWindows ==
  /\ CanCall
  /\ Commit("getVisibleWindows", Null, <<>>, getVisibleWindows(State), State)

NextQueries ==
  \/ CreateWindowNewId
  \/ CloseWindow
  \/ MinimizeWindow
  \/ RestoreWindow
  \/ FocusWindow
  \/ GetWindow
  \/ GetActiveWindow
  \/ GetAllWindows
  \/ GetVisibleWindows

SpecQueries == Init /\ [][NextQueries]_vars

----------------------------------------------------------------------------
(* Properties of the store *)

\* the operations that change the store and take the id of a window
MutationOps ==
  {"closeWindow", "minimizeWindow", "maximizeWindow", "restoreWindow",
   "focusWindow", "updateWindowPosition", "updateWindowSize"}

\* the last call was op on a window that was in the registry when it was made
\* (an action-level predicate: unprimed is before the call, primed after it)
Called(op) == hist'.op = op /\ MapHas(windows, hist'.id)

\* the id of the window with the highest zIndex, or null for an empty registry
TopmostId(m) ==
  IF Len(m) = 0 THEN Null
  ELSE m[CHOOSE i \in 1..Len(m) : \A j \in 1..Len(m) : m[i].zIndex >= m[j].zIndex].id

\* C1: no two distinct windows of the registry have the same zIndex
C1_UniqueZIndex ==
  \A i, j \in 1..Len(windows) :
    i # j => windows[i].zIndex # windows[j].zIndex

\* C1: a window was focused in a registry of three windows
C1_Witness ==
  /\ hist.op = "focusWindow"
  /\ MapHas(windows, hist.id)
  /\ Len(windows) = 3

\* C2: the active window is never a minimized window
C2_ActiveNotMinimized ==
  MapHas(windows, activeWindowId) => ~MapGet(windows, activeWindowId).isMinimized

\* C3: maximizeWindow twice in a row on a non-maximized window leaves it
\* non-maximized with exactly the position and size it had
C3_MaximizeRoundTrip ==
  \A id \in MapKeys(windows) :
    LET window == MapGet(windows, id)
        after == MapGet(maximizeWindow(maximizeWindow(State, id), id).windows, id)
    IN ~window.isMaximized =>
         /\ ~after.isMaximized
         /\ after.position = window.position
         /\ after.size = window.size

\* C4: every window has size.width >= 300 and size.height >= 200
C4_MinimumSize ==
  \A w \in MapValues(windows) :
    w.size.width >= MinWidth /\ w.size.height >= MinHeight

\* C5: a mutation operation called with an id that is not in the registry
\* leaves windows, activeWindowId and nextZIndex as they were
C5_UnknownIdNoOp ==
  [][(hist'.op \in MutationOps /\ ~MapHas(windows, hist'.id))
       => UNCHANGED <<windows, activeWindowId, nextZIndex>>]_vars

\* C6: closeWindow of the active window makes the remaining window with the
\* highest zIndex active, or no window when none remains
C6_CloseActivatesTopmost ==
  [][(Called("closeWindow") /\ activeWindowId = hist'.id)
       => activeWindowId' = TopmostId(windows')]_vars

\* C7: after focusWindow(id) on a window of the registry that window is
\* active and its zIndex is strictly greater than every other window's
C7_FocusMonotonic ==
  [][Called("focusWindow")
       => /\ activeWindowId' = hist'.id
          /\ MapHas(windows', hist'.id)
          /\ \A w \in MapValues(windows') :
               w.id # hist'.id => MapGet(windows', hist'.id).zIndex > w.zIndex]_vars

\* C7: a window created before another one was focused
C7_Witness ==
  /\ hist.op = "focusWindow"
  /\ Len(windows) >= 2
  /\ MapHas(windows, hist.id)
  /\ windows[Len(windows)].id # hist.id
  /\ activeWindowId = hist.id

\* C8: createWindow inserts a window with the given title, position and
\* size, neither minimized nor maximized, makes it active, gives it a zIndex
\* above every window already in the registry, and returns the id under
\* which getWindow finds it
C8_CreateWindow ==
  [][hist'.op = "createWindow"
       => LET window == hist'.arg[1]
              found == getWindow(State', hist'.ret)
          IN /\ found # Undefined
             /\ found[1].id = hist'.id
             /\ found[1].title = window.title
             /\ found[1].position = [x |-> window.x, y |-> window.y]
             /\ found[1].size = [width |-> window.width, height |-> window.height]
             /\ ~found[1].isMinimized
             /\ ~found[1].isMaximized
             /\ activeWindowId' = hist'.ret
             /\ \A w \in MapValues(windows) : found[1].zIndex > w.zIndex]_vars

\* C8: a window was created while the registry held other windows
C8_Witness ==
  /\ hist.op = "createWindow"
  /\ Len(windows) >= 2
  /\ activeWindowId = hist.ret
  /\ MapHas(windows, hist.ret)

\* C9: each createWindow call returns an id the registry does not hold and
\* adds one more window without replacing a window that is already there
C9_CreateAllocatesFreshId ==
  [][hist'.op = "createWindow"
       => /\ ~MapHas(windows, hist'.ret)
          /\ Len(windows') = Len(windows) + 1
          /\ \A i \in 1..Len(windows) : windows'[i] = windows[i]]_vars

\* C10: minimizeWindow(A) sets A.isMinimized; if A was active there is no
\* active window afterwards, otherwise the active window is unchanged
C10_MinimizeClearsActive ==
  [][Called("minimizeWindow")
       => /\ MapGet(windows', hist'.id).isMinimized
          /\ IF activeWindowId = hist'.id
               THEN activeWindowId' = Null
               ELSE activeWindowId' = activeWindowId]_vars

\* C10: a window was minimized, another visible window is in the registry
\* and no window is active
C10_Witness ==
  /\ hist.op = "minimizeWindow"
  /\ MapHas(windows, hist.id)
  /\ MapGet(windows, hist.id).isMinimized
  /\ activeWindowId = Null
  /\ \E w \in MapValues(windows) : w.id # hist.id /\ ~w.isMinimized

\* C11: after restoreWindow(id) on a window of the registry that window is
\* neither minimized nor maximized and is the active window
C11_RestoreWindow ==
  [][Called("restoreWindow")
       => /\ MapHas(windows', hist'.id)
          /\ ~MapGet(windows', hist'.id).isMinimized
          /\ ~MapGet(windows', hist'.id).isMaximized
          /\ activeWindowId' = hist'.id]_vars

\* C11: a window that had been maximized (its geometry was saved) was
\* restored while another window is in the registry
C11_Witness ==
  /\ hist.op = "restoreWindow"
  /\ MapHas(windows, hist.id)
  /\ MapGet(windows, hist.id).originalX # Undefined
  /\ ~MapGet(windows, hist.id).isMaximized
  /\ ~MapGet(windows, hist.id).isMinimized
  /\ activeWindowId = hist.id
  /\ Len(windows) >= 2

\* C12: no window is both minimized and maximized
C12_MinimizedMaximizedExclusive ==
  \A w \in MapValues(windows) : ~(w.isMinimized /\ w.isMaximized)

\* C13: maximizeWindow, minimizeWindow, restoreWindow on a non-maximized
\* window leave it neither minimized nor maximized with the position and
\* size it had when maximizeWindow was called
C13_MaximizeMinimizeRestore ==
  \A id \in MapKeys(windows) :
    LET window == MapGet(windows, id)
        after == MapGet(restoreWindow(minimizeWindow(maximizeWindow(State, id),
                                                     id), id).windows, id)
    IN ~window.isMaximized =>
         /\ ~after.isMinimized
         /\ ~after.isMaximized
         /\ after.position = window.position
         /\ after.size = window.size

\* C14: maximizeWindow(id) on a window that is not maximized sets
\* isMaximized, saves the position and size of that moment, and sets position
\* (0, 0) and size (screenWidth, screenHeight - 48)
C14_MaximizeSavesGeometry ==
  [][(Called("maximizeWindow") /\ ~MapGet(windows, hist'.id).isMaximized)
       => LET before == MapGet(windows, hist'.id)
              after == MapGet(windows', hist'.id)
          IN /\ after.isMaximized
             /\ after.originalX = Some(before.position.x)
             /\ after.originalY = Some(before.position.y)
             /\ after.originalWidth = Some(before.size.width)
             /\ after.originalHeight = Some(before.size.height)
             /\ after.position = [x |-> 0, y |-> 0]
             /\ after.size = [width |-> screenWidth,
                              height |-> screenHeight - 48]]_vars

\* C14: a window was maximized and holds a saved geometry other than the
\* full screen
C14_Witness ==
  /\ hist.op = "maximizeWindow"
  /\ MapHas(windows, hist.id)
  /\ MapGet(windows, hist.id).isMaximized
  /\ MapGet(windows, hist.id).originalWidth = Some(1000)
  /\ MapGet(windows, hist.id).size.width = screenWidth

\* C15: maximizeWindow(id), in both directions, leaves the window's
\* isMinimized and zIndex, activeWindowId, nextZIndex and every other window
\* as they were
C15_MaximizeFrame ==
  [][Called("maximizeWindow")
       => /\ MapGet(windows', hist'.id).isMinimized
               = MapGet(windows, hist'.id).isMinimized
          /\ MapGet(windows', hist'.id).zIndex = MapGet(windows, hist'.id).zIndex
          /\ activeWindowId' = activeWindowId
          /\ nextZIndex' = nextZIndex
          /\ Len(windows') = Len(windows)
          /\ \A i \in 1..Len(windows) :
               windows[i].id # hist'.id => windows'[i] = windows[i]]_vars

\* C15: a window that is not the active one was un-maximized while another
\* window is in the registry
C15_Witness ==
  /\ hist.op = "maximizeWindow"
  /\ MapHas(windows, hist.id)
  /\ ~MapGet(windows, hist.id).isMaximized
  /\ MapGet(windows, hist.id).originalX # Undefined
  /\ MapHas(windows, activeWindowId)
  /\ activeWindowId # hist.id

\* v brought into the range lo..hi
Clamp(v, lo, hi) == IF v < lo THEN lo ELSE IF v > hi THEN hi ELSE v

\* at least 50px of the window are reachable: 50 - width <= x <=
\* screenWidth - 50 and 0 <= y <= screenHeight - 50
InBounds(w) ==
  /\ 50 - w.size.width <= w.position.x
  /\ w.position.x <= screenWidth - 50
  /\ 0 <= w.position.y
  /\ w.position.y <= screenHeight - 50

\* C16: updateWindowSize stores exactly width = max(requested width, 300)
\* and height = max(requested height, 200)
C16_UpdateWindowSize ==
  [][Called("updateWindowSize")
       => LET size == hist'.arg[1]
              after == MapGet(windows', hist'.id)
          IN /\ after.size.width = (IF size.width >= 300 THEN size.width ELSE 300)
             /\ after.size.height
                  = (IF size.height >= 200 THEN size.height ELSE 200)]_vars

\* C16: a zero width and a negative height were requested and 300x200 stored
C16_Witness ==
  /\ hist.op = "updateWindowSize"
  /\ hist.arg = <<[width |-> 0, height |-> -10]>>
  /\ MapHas(windows, hist.id)
  /\ MapGet(windows, hist.id).size = [width |-> 300, height |-> 200]

\* C17: updateWindowPosition stores x clamped to [50 - w, screenWidth - 50]
\* for the window's current width w and y clamped to [0, screenHeight - 50];
\* a request inside both ranges is stored unchanged
C17_UpdateWindowPosition ==
  [][Called("updateWindowPosition")
       => LET position == hist'.arg[1]
              before == MapGet(windows, hist'.id)
              after == MapGet(windows', hist'.id)
          IN /\ after.position.x
                  = Clamp(position.x, 50 - before.size.width, screenWidth - 50)
             /\ after.position.y = Clamp(position.y, 0, screenHeight - 50)
             /\ after.size = before.size]_vars

\* C17: a position beyond the left and bottom edges was requested and the
\* lower limit of x and the upper limit of y were stored
C17_Witness ==
  /\ hist.op = "updateWindowPosition"
  /\ hist.arg = <<[x |-> -2000, y |-> 2000]>>
  /\ MapHas(windows, hist.id)
  /\ MapGet(windows, hist.id).position.x = 50 - MapGet(windows, hist.id).size.width
  /\ MapGet(windows, hist.id).position.y = screenHeight - 50

\* C18: after any sequence of updateWindowPosition and updateWindowSize
\* calls the stored position is within the bounds for the stored width
C18_BoundsAfterMoveResize ==
  \A w \in MapValues(windows) : InBounds(w)

\* C19: the position stored by updateWindow(id, {x, y}) and by
\* setWindowPosition(id, x, y) is within the bounds
C19_DragWithinBounds ==
  [][(\/ Called("setWindowPosition")
      \/ /\ Called("updateWindow")
         /\ (hist'.arg[1].x # Undefined \/ hist'.arg[1].y # Undefined))
       => InBounds(MapGet(windows', hist'.id))]_vars

\* C20: a maximized window has position (0, 0) and size
\* (screenWidth, screenHeight - 48)
C20_MaximizedIsFullScreen ==
  \A w \in MapValues(windows) :
    w.isMaximized =>
      /\ w.position = [x |-> 0, y |-> 0]
      /\ w.size = [width |-> screenWidth, height |-> screenHeight - 48]

\* C21: closeWindow(id) twice in a row leaves windows, activeWindowId and
\* nextZIndex as closeWindow(id) once leaves them, and after the first call
\* getWindow(id) finds nothing
C21_CloseIdempotent ==
  \A id \in Ids :
    LET once == closeWindow(State, id)
    IN /\ closeWindow(once, id) = once
       /\ getWindow(once, id) = Undefined

\* C21: a window was closed, two windows remain and the last of them is
\* active
C21_Witness ==
  /\ hist.op = "closeWindow"
  /\ ~MapHas(windows, hist.id)
  /\ Len(windows) = 2
  /\ activeWindowId = windows[2].id

\* C22: activating the maximize control of a non-maximized window twice
\* leaves it with isMaximized = false and the size it had before the first
\* activation
C22_MaximizeControlTwice ==
  \A id \in RenderedIds :
    LET window == MapGet(windows, id)
        after == MapGet(handleMaximize(handleMaximize(State, id), id).windows, id)
    IN ~window.isMaximized =>
         /\ ~after.isMaximized
         /\ after.size = window.size

\* C23: after updateWindow(id, {title: t}) on a window of the registry the
\* stored title of that window is t and its position, size, zIndex and flags
\* are unchanged
C23_UpdateWindowTitle ==
  [][(Called("updateWindow") /\ hist'.arg[1].title # Undefined)
       => LET before == MapGet(windows, hist'.id)
              after == MapGet(windows', hist'.id)
          IN /\ after.title = hist'.arg[1].title[1]
             /\ (hist'.arg[1].x = Undefined /\ hist'.arg[1].y = Undefined
                   => after.position = before.position)
             /\ (hist'.arg[1].width = Undefined /\ hist'.arg[1].height = Undefined
                   => after.size = before.size)
             /\ after.zIndex = before.zIndex
             /\ after.isMinimized = before.isMinimized
             /\ after.isMaximized = before.isMaximized]_vars

\* the values of an array
Elements(array) == { array[i] : i \in 1..Len(array) }

\* C24: getVisibleWindows returns exactly the windows with isMinimized =
\* false, getAllWindows every window of the registry, getActiveWindow the
\* window whose id is activeWindowId or nothing when there is none, and no
\* query changes windows, activeWindowId or nextZIndex
C24_Queries ==
  [][/\ hist'.op \in {"getWindow", "getActiveWindow", "getAllWindows",
                      "getVisibleWindows"}
          => UNCHANGED <<windows, activeWindowId, nextZIndex>>
     /\ hist'.op = "getVisibleWindows"
          => /\ Elements(hist'.ret) = { w \in MapValues(windows) : ~w.isMinimized }
             /\ Len(hist'.ret) = Cardinality(Elements(hist'.ret))
     /\ hist'.op = "getAllWindows"
          => /\ Elements(hist'.ret) = MapValues(windows)
             /\ Len(hist'.ret) = Len(windows)
     /\ hist'.op = "getActiveWindow"
          => IF \E w \in MapValues(windows) : w.id = activeWindowId
               THEN /\ hist'.ret # Undefined
                    /\ hist'.ret[1].id = activeWindowId
                    /\ hist'.ret[1] \in MapValues(windows)
               ELSE hist'.ret = Undefined]_vars

\* C24: getVisibleWindows returned one window of a registry of two, the
\* other one being minimized
C24_Witness ==
  /\ hist.op = "getVisibleWindows"
  /\ Len(hist.ret) = 1
  /\ Len(windows) = 2
  /\ \E w \in MapValues(windows) : w.isMinimized

\* C25: launchApp(appId) for a registered application opens exactly one new
\* window with the application's defaultSize and isResizable and isClosable
\* flags, neither minimized nor maximized, active and with a zIndex above
\* every existing window; for an appId that is not registered the window
\* store is unchanged
C25_LaunchApp ==
  [][hist'.op = "launchApp"
       => LET appId == hist'.arg[1]
          IN IF appId \in DOMAIN Apps
               THEN LET opened == windows'[Len(windows')]
                    IN /\ Len(windows') = Len(windows) + 1
                       /\ \A i \in 1..Len(windows) : windows'[i] = windows[i]
                       /\ ~MapHas(windows, opened.id)
                       /\ opened.size = Apps[appId].defaultSize
                       /\ opened.isResizable = Apps[appId].isResizable
                       /\ opened.isClosable = Apps[appId].isClosable
                       /\ ~opened.isMinimized
                       /\ ~opened.isMaximized
                       /\ activeWindowId' = opened.id
                       /\ \A w \in MapValues(windows) : opened.zIndex > w.zIndex
               ELSE UNCHANGED <<windows, activeWindowId, nextZIndex>>]_vars

\* C25: the calculator was launched while another window, brought to the
\* front before, is open
C25_Witness ==
  /\ hist.op = "launchApp"
  /\ hist.arg[1] = "calculator"
  /\ Len(windows) = 2
  /\ windows[2].id = hist.id
  /\ windows[2].size = [width |-> 300, height |-> 400]
  /\ windows[2].isResizable = <<FALSE>>
  /\ windows[1].zIndex > InitialZIndex
  /\ activeWindowId = hist.id

\* C26: minimizeWindow(id) on a window of the registry changes only that
\* window's isMinimized and, if it was active, the active reference: its
\* zIndex, position, size, isMaximized and saved geometry, nextZIndex and
\* every other window are as before
C26_MinimizeFrame ==
  [][Called("minimizeWindow")
       => LET before == MapGet(windows, hist'.id)
              after == MapGet(windows', hist'.id)
          IN /\ after = [before EXCEPT !.isMinimized = after.isMinimized]
             /\ nextZIndex' = nextZIndex
             /\ Len(windows') = Len(windows)
             /\ \A i \in 1..Len(windows) :
                  windows[i].id # hist'.id => windows'[i] = windows[i]
             /\ activeWindowId # hist'.id => activeWindowId' = activeWindowId]_vars

\* C26: a maximized window was minimized, keeping its maximized flag and
\* saved geometry, while another window is active
C26_Witness ==
  /\ hist.op = "minimizeWindow"
  /\ MapHas(windows, hist.id)
  /\ MapGet(windows, hist.id).isMinimized
  /\ MapGet(windows, hist.id).isMaximized
  /\ MapGet(windows, hist.id).originalWidth # Undefined
  /\ MapHas(windows, activeWindowId)
  /\ activeWindowId # hist.id

\* C27: activeWindowId is null or the id of a window of the registry
C27_ActiveInRegistry ==
  activeWindowId = Null \/ MapHas(windows, activeWindowId)

\* C28: every window's zIndex is at least 1000 and strictly less than
\* nextZIndex, and nextZIndex never decreases
C28_ZIndexBelowCounter ==
  [][/\ nextZIndex' >= nextZIndex
     /\ \A w \in MapValues(windows') :
          w.zIndex >= 1000 /\ w.zIndex < nextZIndex']_vars

\* C28: a window was created after the window that held the highest zIndex
\* was closed, and it did not get that zIndex again
C28_Witness ==
  /\ hist.op = "createWindow"
  /\ Len(windows) = 2
  /\ windows[2].id = hist.id
  /\ windows[2].zIndex = nextZIndex - 1
  /\ windows[1].zIndex < nextZIndex - 2
  /\ nextZIndex = InitialZIndex + 3

\* C29: the window designated by activeWindowId has the highest zIndex of
\* all windows of the registry
C29_ActiveIsTopmost ==
  MapHas(windows, activeWindowId)
    => \A w \in MapValues(windows) :
         w.zIndex <= MapGet(windows, activeWindowId).zIndex

\* C30: closeWindow(id) on a window of the registry, whatever its state,
\* removes that window and only it: the records of the other windows and
\* nextZIndex are unchanged, and so is the active reference when the closed
\* window was not the active one
C30_CloseFrame ==
  [][Called("closeWindow")
       => /\ ~MapHas(windows', hist'.id)
          /\ windows' = SelectSeq(windows, LAMBDA w : w.id # hist'.id)
          /\ Len(windows') = Len(windows) - 1
          /\ nextZIndex' = nextZIndex
          /\ activeWindowId # hist'.id => activeWindowId' = activeWindowId]_vars

\* C30: a window that was not active was closed; two windows remain and the
\* first of them is still the active one
C30_Witness ==
  /\ hist.op = "closeWindow"
  /\ ~MapHas(windows, hist.id)
  /\ Len(windows) = 2
  /\ activeWindowId = windows[1].id

====
